---- MODULE Spec2Model ----
(***************************************************************************)
(* Model of bin/others/extract_contours.py: the per-slice loop of main(),  *)
(* the contour extraction (erosion, xor, nonzero), the greedy tour over    *)
(* the contour points (__find_nearest, __dist) and the interpolation       *)
(* (__draw_line).                                                          *)
(*                                                                         *)
(* Positions in contour are 0-based as in the source; the TLA+ sequence    *)
(* contour keeps position pos at contour[pos + 1].  Python's False is the  *)
(* integer 0 in comparisons, so False is kept as 0.  The floats produced   *)
(* by __draw_line are multiples of 1/divider; contour_final keeps them as  *)
(* integers in units of 1/divider (value * divider).  Distances are kept   *)
(* squared: sqrt is monotone, so every comparison of the source between    *)
(* two distances is the comparison of the squares.                         *)
(***************************************************************************)
EXTENDS Integers, Sequences, FiniteSets, TLC

\* bounds of the input image
MaxRows == 3
MaxCols == 4
MaxSlices == 3
MaxVoxels == 9

\* program constants
divider == 2
InitialDistance == 10000000
GapSquared == 8

VARIABLES nrows, ncols, nslices, force, files, opened, warnings,
          slice_idx, pc, image_slice, input_eroded, contour, point, processed, contour_final

vars == <<nrows, ncols, nslices, force, files, opened, warnings,
          slice_idx, pc, image_slice, input_eroded, contour, point, processed, contour_final>>

----------------------------------------------------------------------------
\* pure helpers

Cells(nr, nc) == (0 .. nr - 1) \X (0 .. nc - 1)

\* the default structuring element of binary_erosion: the cell and its 4 neighbours
Cross(c) == {c, <<c[1] - 1, c[2]>>, <<c[1] + 1, c[2]>>, <<c[1], c[2] - 1>>, <<c[1], c[2] + 1>>}

\* binary_erosion with the default border_value=0
binary_erosion_border0(mask, nr, nc) ==
    {c \in Cells(nr, nc) : \A n \in Cross(c) : n \in Cells(nr, nc) /\ n \in mask}

\* binary_erosion(image_slice, border_value=1): a cell stays set when every
\* cell of the structuring element is set, cells outside the image counting as set
binary_erosion(mask, nr, nc) ==
    {c \in Cells(nr, nc) : \A n \in Cross(c) : n \in Cells(nr, nc) => n \in mask}

\* image_slice ^= input_eroded
Xor(a, b) == (a \ b) \cup (b \ a)

\* row-major order of nonzero()
RasterBefore(a, b) == a[1] < b[1] \/ (a[1] = b[1] /\ a[2] < b[2])

\* nonzero() followed by the transposition into a list of [x, y] points
RECURSIVE nonzero(_)
nonzero(S) ==
    IF S = {} THEN <<>>
    ELSE LET first == CHOOSE c \in S : \A d \in S \ {c} : RasterBefore(c, d)
         IN <<first>> \o nonzero(S \ {first})

\* only the last processed position is excluded
InList_last(pos, list) == Len(list) > 0 /\ list[Len(list)] = pos

\* pos in processed
InList(pos, list) == \E k \in 1 .. Len(list) : list[k] = pos

\* the radicand of __dist
Dist2(p1, p2) == (p1[1] - p2[1]) * (p1[1] - p2[1]) + (p1[2] - p2[2]) * (p1[2] - p2[2])

\* floor of the square root
ISqrt(n) == CHOOSE r \in 0 .. n : r * r <= n /\ (r + 1) * (r + 1) > n

\* dist <= distance
DistLess_orequal(dist2, best) ==
    IF best.initial THEN ISqrt(dist2) < InitialDistance ELSE dist2 <= best.distance2

\* dist < distance, distance being the initial 10000000 or an earlier dist.
\* For an integer N, sqrt(d) < N iff floor(sqrt(d)) < N.
DistLess(dist2, best) ==
    IF best.initial THEN ISqrt(dist2) < InitialDistance ELSE dist2 < best.distance2

\* the for loop of __find_nearest from position pos on
RECURSIVE NearestScan(_, _, _, _, _)
NearestScan(pt, cont, proc, pos, best) ==
    IF pos >= Len(cont) THEN best
    ELSE IF InList(pos, proc) THEN NearestScan(pt, cont, proc, pos + 1, best)
    ELSE LET dist2 == Dist2(pt, cont[pos + 1])
         IN IF DistLess(dist2, best)
            THEN NearestScan(pt, cont, proc, pos + 1,
                             [nearest |-> pos, initial |-> FALSE, distance2 |-> dist2])
            ELSE NearestScan(pt, cont, proc, pos + 1, best)

\* distance > 3
ExceedsGap_wide(best) ==
    IF best.initial THEN InitialDistance > 3 ELSE best.distance2 > 9

\* distance > math.sqrt(8)
ExceedsGap(best) ==
    IF best.initial THEN InitialDistance > ISqrt(GapSquared) ELSE best.distance2 > GapSquared

\* __find_nearest without the limit on the distance
find_nearest_nogap(pt, cont, proc) ==
    NearestScan(pt, cont, proc, 0, [nearest |-> 0, initial |-> TRUE, distance2 |-> 0]).nearest

\* __find_nearest; the result False is 0
find_nearest(pt, cont, proc) ==
    LET best == NearestScan(pt, cont, proc, 0,
                            [nearest |-> 0, initial |-> TRUE, distance2 |-> 0])
    IN IF ExceedsGap(best) THEN 0 ELSE best.nearest

\* __draw_line with range(1, divider)
draw_line_short(p1, p2, div) ==
    [i \in 1 .. div - 1 |-> <<div * p1[1] + (p1[1] - p2[1]) * i,
                              div * p1[2] + (p1[2] - p2[2]) * i>>]

\* __draw_line, coordinates in units of 1/div
draw_line(p1, p2, div) ==
    [i \in 1 .. div |-> <<div * p1[1] + (p1[1] - p2[1]) * i,
                          div * p1[2] + (p1[2] - p2[2]) * i>>]

----------------------------------------------------------------------------
\* the state machine

Shapes == {s \in (1 .. MaxRows) \X (1 .. MaxCols) \X (1 .. MaxSlices) :
             s[1] * s[2] * s[3] <= MaxVoxels}

\* a record left in the target folder by an earlier run
OldRecord == << <<0, 0>>, <<0, 0>> >>

Init ==
    /\ \E s \in Shapes : nrows = s[1] /\ ncols = s[2] /\ nslices = s[3]
    /\ force \in BOOLEAN
    /\ \E existing \in SUBSET (0 .. MaxSlices - 1) :
          /\ existing \subseteq 0 .. nslices - 1
          /\ files = [i \in existing |-> OldRecord]
    /\ opened = {}
    /\ warnings = <<>>
    /\ slice_idx = 0
    /\ pc = "for"
    /\ image_slice = {}
    /\ input_eroded = {}
    /\ contour = <<>>
    /\ point = <<>>
    /\ processed = <<>>
    /\ contour_final = <<>>

\* lines 66-70: the output file exists and -f was not given
SkipExisting ==
    /\ pc = "for"
    /\ slice_idx < nslices
    /\ ~force
    /\ slice_idx \in DOMAIN files
    /\ warnings' = Append(warnings, <<"exists", slice_idx>>)
    /\ slice_idx' = slice_idx + 1
    /\ UNCHANGED <<nrows, ncols, nslices, force, files, opened, pc, image_slice,
                   input_eroded, contour, point, processed, contour_final>>

\* the slice is processed whether or not its file exists
CleanSlice_always ==
    /\ pc = "for"
    /\ slice_idx < nslices
    /\ \E mask \in SUBSET Cells(nrows, ncols) : image_slice' = mask
    /\ pc' = "erode"
    /\ UNCHANGED <<nrows, ncols, nslices, force, files, opened, warnings,
                   slice_idx, input_eroded, contour, point, processed,
                   contour_final>>

\* lines 72-96: the slice after the morphological operations of scipy; their
\* result is an input here, any mask of the slice's shape
CleanSlice ==
    /\ pc = "for"
    /\ slice_idx < nslices
    /\ force \/ slice_idx \notin DOMAIN files
    /\ \E mask \in SUBSET Cells(nrows, ncols) : image_slice' = mask
    /\ pc' = "erode"
    /\ UNCHANGED <<nrows, ncols, nslices, force, files, opened, warnings,
                   slice_idx, input_eroded, contour, point, processed,
                   contour_final>>

\* lines 104-113: the erosion, the xor and the contour positions
ExtractContour ==
    /\ pc = "erode"
    /\ input_eroded' = binary_erosion(image_slice, nrows, ncols)
    /\ image_slice' = Xor(image_slice, input_eroded')
    /\ contour' = nonzero(image_slice')
    /\ pc' = "contour"
    /\ UNCHANGED <<nrows, ncols, nslices, force, files, opened, warnings,
                   slice_idx, point, processed, contour_final>>

\* an empty contour is saved as an empty file
EmptyContour_write ==
    /\ pc = "contour"
    /\ Len(contour) = 0
    /\ opened' = opened \cup {slice_idx}
    /\ files' = [i \in DOMAIN files \cup {slice_idx} |->
                    IF i = slice_idx THEN <<>> ELSE files[i]]
    /\ slice_idx' = slice_idx + 1
    /\ pc' = "for"
    /\ UNCHANGED <<nrows, ncols, nslices, force, warnings, image_slice,
                   input_eroded, contour, point, processed, contour_final>>

\* lines 115-117
EmptyContour ==
    /\ pc = "contour"
    /\ Len(contour) = 0
    /\ warnings' = Append(warnings, <<"empty", slice_idx>>)
    /\ slice_idx' = slice_idx + 1
    /\ pc' = "for"
    /\ UNCHANGED <<nrows, ncols, nslices, force, files, opened, image_slice,
                   input_eroded, contour, point, processed, contour_final>>

\* lines 120-124
StartTour ==
    /\ pc = "contour"
    /\ Len(contour) # 0
    /\ point' = contour[1]
    /\ processed' = <<0>>
    /\ contour_final' = <<>>
    /\ pc' = "while"
    /\ UNCHANGED <<nrows, ncols, nslices, force, files, opened, warnings,
                   slice_idx, image_slice, input_eroded, contour>>

\* lines 125-130: one iteration that does not break
TourStep ==
    /\ pc = "while"
    /\ point # <<>>
    /\ LET nearest_pos == find_nearest(point, contour, processed)
       IN /\ nearest_pos # 0
          /\ contour_final' = contour_final \o draw_line(point, contour[nearest_pos + 1], divider)
          /\ processed' = Append(processed, nearest_pos)
          /\ point' = contour[nearest_pos + 1]
    /\ UNCHANGED <<nrows, ncols, nslices, force, files, opened, warnings,
                   slice_idx, pc, image_slice, input_eroded, contour>>

\* the break without the connection between last and first point
CloseTour_unclosed ==
    /\ pc = "while"
    /\ point # <<>>
    /\ find_nearest(point, contour, processed) = 0
    /\ pc' = "save"
    /\ UNCHANGED <<nrows, ncols, nslices, force, files, opened, warnings,
                   slice_idx, image_slice, input_eroded, contour, point,
                   processed, contour_final>>

\* lines 126-127 and 132: the break and the connection between last and first point
CloseTour ==
    /\ pc = "while"
    /\ point # <<>>
    /\ find_nearest(point, contour, processed) = 0
    /\ contour_final' = contour_final \o draw_line(point, contour[1], divider)
    /\ pc' = "save"
    /\ UNCHANGED <<nrows, ncols, nslices, force, files, opened, warnings,
                   slice_idx, image_slice, input_eroded, contour, point,
                   processed>>

\* lines 134-138: one line per point of contour_final
SaveContour ==
    /\ pc = "save"
    /\ opened' = opened \cup {slice_idx}
    /\ files' = [i \in DOMAIN files \cup {slice_idx} |->
                    IF i = slice_idx THEN contour_final ELSE files[i]]
    /\ slice_idx' = slice_idx + 1
    /\ pc' = "for"
    /\ UNCHANGED <<nrows, ncols, nslices, force, warnings, image_slice,
                   input_eroded, contour, point, processed, contour_final>>

\* line 140: the range of the for loop is exhausted
Finish ==
    /\ pc = "for"
    /\ slice_idx >= nslices
    /\ pc' = "done"
    /\ UNCHANGED <<nrows, ncols, nslices, force, files, opened, warnings,
                   slice_idx, image_slice, input_eroded, contour, point,
                   processed, contour_final>>

Next ==
    \/ SkipExisting
    \/ CleanSlice
    \/ ExtractContour
    \/ EmptyContour
    \/ StartTour
    \/ TourStep
    \/ CloseTour
    \/ SaveContour
    \/ Finish

Spec == Init /\ [][Next]_vars

\* the loop body runs sequentially and nothing in it blocks
FairSpec == Spec /\ WF_vars(Next)

----------------------------------------------------------------------------
\* vocabulary of the properties

InTour == pc \in {"while", "save"}

Positions == 0 .. Len(contour) - 1

At(pos) == contour[pos + 1]

Unvisited == {pos \in Positions : \A k \in 1 .. Len(processed) : processed[k] # pos}

\* the calls of __draw_line so far, as <<origin position, destination position>>
Segments ==
    [k \in 1 .. Len(processed) - 1 |-> <<processed[k], processed[k + 1]>>]
      \o (IF pc = "save" THEN << <<processed[Len(processed)], 0>> >> ELSE <<>>)

\* the i-th of divider evenly spaced points from p1 (excluded) to p2, in units of 1/divider
OnSegment(p1, p2, i) ==
    <<divider * p1[1] + (p2[1] - p1[1]) * i, divider * p1[2] + (p2[2] - p1[2]) * i>>

\* the positions linked to position 0 by steps of at most sqrt(8)
RECURSIVE Grow(_)
Grow(S) ==
    LET T == S \cup {q \in Positions : \E r \in S : Dist2(At(r), At(q)) <= GapSquared}
    IN IF T = S THEN S ELSE Grow(T)

Cluster0 == Grow({0})

\* the in-image 4-neighbours of a cell
Neighbours4(c) == (Cross(c) \ {c}) \cap Cells(nrows, ncols)

OnBorder(c) == c[1] = 0 \/ c[2] = 0 \/ c[1] = nrows - 1 \/ c[2] = ncols - 1

Elements(seq) == {seq[k] : k \in 1 .. Len(seq)}

RasterSorted(seq) == \A k \in 1 .. Len(seq) - 1 : RasterBefore(seq[k], seq[k + 1])

----------------------------------------------------------------------------
\* C1: every segment of the tour, the closing one included, contributes
\* exactly divider points evenly spaced from its origin (excluded) to its
\* destination, the last one being the destination itself.
C1_SegmentsInterpolated ==
    InTour =>
      /\ Len(contour_final) = divider * Len(Segments)
      /\ \A k \in 1 .. Len(Segments) : \A i \in 1 .. divider :
            contour_final[(k - 1) * divider + i]
              = OnSegment(At(Segments[k][1]), At(Segments[k][2]), i)

\* C2: when the contour has several clusters farther apart than sqrt(8),
\* every visited position and every destination of a segment lies in the
\* cluster of position 0, and once no unvisited point is within sqrt(8) of
\* the current point the only further segment is the closing one.
C2_InCluster ==
    (InTour /\ Cluster0 # Positions) =>
      /\ \A k \in 1 .. Len(processed) : processed[k] \in Cluster0
      /\ \A k \in 1 .. Len(Segments) : Segments[k][2] \in Cluster0

C2_StopsAtGap ==
    (pc = "while" /\ Cluster0 # Positions
       /\ \A q \in Unvisited : Dist2(point, At(q)) > GapSquared) =>
      /\ pc' = "save"
      /\ processed' = processed
      /\ Len(contour_final') = Len(contour_final) + divider

C2_OnlyFirstCluster == [](C2_InCluster) /\ [][C2_StopsAtGap]_vars

C2_Witness ==
    /\ pc = "save"
    /\ Cluster0 # Positions
    /\ Len(processed) >= 2
    /\ Len(processed) = Cardinality(Cluster0)

\* C3 as stated: in a tour that visited every point, every two consecutive
\* tour points, the pair of the closing segment included, are within sqrt(8).
C3_AllSegmentsShort ==
    (pc = "save" /\ Len(processed) = Len(contour)) =>
      \A k \in 1 .. Len(Segments) :
         Dist2(At(Segments[k][1]), At(Segments[k][2])) <= GapSquared

\* C3 amended: in a tour that visited every point, every two consecutive
\* tour points joined by a step of the loop are within sqrt(8); the closing
\* segment is not bounded.
C3_LoopSegmentsShort ==
    (pc = "save" /\ Len(processed) = Len(contour)) =>
      \A k \in 1 .. Len(processed) - 1 :
         Dist2(At(processed[k]), At(processed[k + 1])) <= GapSquared

C3_Witness ==
    /\ pc = "save"
    /\ Len(processed) = Len(contour)
    /\ Len(processed) >= 3
    /\ Dist2(point, At(0)) > GapSquared

\* C4: a slice with an empty contour is skipped with a warning: no path is
\* built, no file is opened, created or changed, and the loop goes on to
\* the next slice.
C4_EmptyStep ==
    (pc = "contour" /\ Len(contour) = 0) =>
      /\ files' = files
      /\ opened' = opened
      /\ contour_final' = contour_final
      /\ processed' = processed
      /\ warnings' = Append(warnings, <<"empty", slice_idx>>)
      /\ slice_idx' = slice_idx + 1
      /\ pc' = "for"

C4_EmptySkipped == [][C4_EmptyStep]_vars

C4_Witness ==
    /\ pc = "done"
    /\ nslices = 3
    /\ 0 \in opened
    /\ 2 \in opened
    /\ \E k \in 1 .. Len(warnings) : warnings[k] = <<"empty", 1>>
    /\ 1 \notin DOMAIN files

\* C5: a contour of one point p gives no step of the loop and the path p, p.
C5_SinglePoint ==
    (pc = "save" /\ Len(contour) = 1) =>
      /\ processed = <<0>>
      /\ contour_final = << <<divider * At(0)[1], divider * At(0)[2]>>,
                            <<divider * At(0)[1], divider * At(0)[2]>> >>

C5_Witness ==
    /\ pc = "save"
    /\ Len(contour) = 1
    /\ At(0) # <<0, 0>>

\* C6 as stated: the contour lists, in raster order, the cells set in the
\* mask and not in its erosion, the erosion keeps the set cells whose
\* 4-neighbours are all set (cells outside the image counted as set) and is
\* a subset of the mask, and every set cell on the border of the image is
\* listed.
C6_BorderStep ==
    pc = "erode" =>
      /\ input_eroded' \subseteq image_slice
      /\ input_eroded' = {c \in image_slice : \A n \in Neighbours4(c) : n \in image_slice}
      /\ Elements(contour') = image_slice \ input_eroded'
      /\ RasterSorted(contour')
      /\ \A c \in image_slice : OnBorder(c) => c \in Elements(contour')

C6_BorderCellsReported == [][C6_BorderStep]_vars

\* C6 amended: as stated, except that a set cell on the border of the image
\* is listed only when one of its 4-neighbours inside the image is unset.
C6_RimStep ==
    pc = "erode" =>
      /\ input_eroded' \subseteq image_slice
      /\ input_eroded' = {c \in image_slice : \A n \in Neighbours4(c) : n \in image_slice}
      /\ image_slice' = image_slice \ input_eroded'
      /\ Elements(contour') = image_slice \ input_eroded'
      /\ Len(contour') = Cardinality(image_slice \ input_eroded')
      /\ RasterSorted(contour')
      /\ \A c \in image_slice :
            (OnBorder(c) /\ \A n \in Neighbours4(c) : n \in image_slice) => c \notin Elements(contour')

C6_RimCellsReported == [][C6_RimStep]_vars

C6_Witness ==
    /\ pc = "contour"
    /\ nrows = 3
    /\ ncols = 3
    /\ input_eroded = {<<0, 0>>, <<0, 1>>, <<0, 2>>}
    /\ contour = << <<1, 0>>, <<1, 1>>, <<1, 2>> >>

\* C7: a slice whose file exists is skipped unless -f is given: the file is
\* not opened and keeps its content, the loop goes on to the next slice,
\* and an existing file is opened for writing only under -f.
C7_SkipStep ==
    /\ (pc = "for" /\ slice_idx < nslices /\ ~force /\ slice_idx \in DOMAIN files) =>
          /\ files' = files
          /\ opened' = opened
          /\ slice_idx' = slice_idx + 1
          /\ pc' = "for"
    /\ \A i \in opened' \ opened : force \/ i \notin DOMAIN files

C7_ExistingSkipped == [][C7_SkipStep]_vars

C7_Witness ==
    /\ pc = "done"
    /\ ~force
    /\ nslices = 2
    /\ opened = {1}
    /\ 0 \in DOMAIN files
    /\ files[0] = OldRecord
    /\ files[1] # OldRecord

\* C8: processed never holds a position twice; position 0 is its first
\* element, the nearest-neighbour step never chooses it again, and it is
\* the destination of the closing segment only.
C8_NoRepeat ==
    InTour =>
      /\ Len(processed) >= 1
      /\ processed[1] = 0
      /\ \A j, k \in 1 .. Len(processed) : processed[j] = processed[k] => j = k
      /\ \A k \in 1 .. Len(Segments) :
            Segments[k][2] = 0 => (pc = "save" /\ k = Len(Segments))

C8_Witness ==
    /\ pc = "save"
    /\ Len(processed) >= 4
    /\ Len(processed) < Len(contour)

\* C9: __find_nearest returns the lowest unvisited position among those at
\* minimum distance from the current point, and False exactly when nothing
\* is unvisited or that minimum exceeds sqrt(8); sqrt(8) itself is accepted.
C9_Nearest ==
    pc = "while" =>
      LET found == find_nearest(point, contour, processed)
          close == {q \in Unvisited : \A r \in Unvisited :
                       Dist2(point, At(q)) <= Dist2(point, At(r))}
          stop  == Unvisited = {} \/ \E q \in close : Dist2(point, At(q)) > GapSquared
      IN IF stop THEN found = 0
         ELSE found # 0 /\ found \in close /\ \A q \in close : found <= q

C9_Witness ==
    /\ InTour
    /\ \E k \in 1 .. Len(processed) - 1 :
          Dist2(At(processed[k]), At(processed[k + 1])) = GapSquared
    /\ \E k \in 1 .. Len(processed) - 1 : \E q \in Positions :
          /\ q > processed[k + 1]
          /\ \A j \in 1 .. k : processed[j] # q
          /\ Dist2(At(processed[k]), At(q)) = Dist2(At(processed[k]), At(processed[k + 1]))

\* C10: the loop of the tour ends: every iteration stops it or visits one
\* more position, at most Len(contour) - 1 iterations extend the tour, the
\* closing segment comes once, and the path has divider points for every
\* visited position.
C10_Counts ==
    InTour =>
      /\ Len(processed) <= Len(contour)
      /\ (pc = "while" => Len(contour_final) = divider * (Len(processed) - 1))
      /\ (pc = "save" => Len(contour_final) = divider * Len(processed))

C10_Iteration ==
    pc = "while" =>
      \/ pc' = "save" /\ processed' = processed
      \/ pc' = "while" /\ Len(processed') = Len(processed) + 1

C10_Terminates ==
    /\ [](C10_Counts)
    /\ [][C10_Iteration]_vars
    /\ (pc = "while") ~> (pc = "save")

C10_Witness ==
    /\ pc = "save"
    /\ Len(contour) >= 4
    /\ Len(processed) = Len(contour)

TypeOK ==
    /\ pc \in {"for", "erode", "contour", "while", "save", "done"}
    /\ slice_idx \in 0 .. nslices
    /\ DOMAIN files \subseteq 0 .. nslices - 1
====
